---- MODULE Spec2Model ----
(***************************************************************************)
(* Model of the test-mcp service: configuration loading, construction of   *)
(* the single-call agent and its one-node workflow, tool registration,     *)
(* and the handling of ask_question / get_greeting requests, several of    *)
(* which may be in flight at once on the event loop.                       *)
(***************************************************************************)
EXTENDS Naturals, Sequences, FiniteSets, TLC

\* Number of requests the dispatch runtime receives in one run.
MaxCalls == 2

\* Number of node executions the workflow runtime allows in one invocation.
RecursionLimit == 3

Calls == 1..MaxCalls

----------------------------------------------------------------------------
\* Python values that may be absent: None, or a str.

None == [py |-> "None"]

Str(s) == [py |-> "str", s |-> s]

\* A text of more than 100 characters (104), to exercise response[:100].
LongText == "0123456789012345678901234567890123456789012345678901234567890123456789012345678901234567890123456789TAIL"

\* Inputs drawn by the environment.
Queries == {"", "what is the answer?"}

Names == {"", "Ada", "User"}

\* Keyword arguments of a get_greeting request: name given, or omitted.
GreetingArgs == {<<>>} \cup {[name |-> n] : n \in Names}

AskArgs == {[query |-> q] : q \in Queries}

Contents == {"42", "", LongText}

Errors == {"ConnectionError"}

----------------------------------------------------------------------------
\* Configuration (app/core/config.py)

Unset == "<unset>"

EnvPort == {Unset, "9090", "abc"}

EnvLogLevel == {Unset, "DEBUG", "WARN", "verbose"}

DefaultHost == "0.0.0.0"

DefaultPort == 8000

DefaultAgentName == "test-agent"

\* The source carries a literal key; the model keeps only a stand-in for it.
DefaultApiKey == "<api-key>"

DefaultModel == "gemini-2.5-flash"

\* 0.7, in tenths.
DefaultTemperature == 7

DefaultLogLevel == "INFO"

\* pydantic's conversion of an environment string to int.
ParseInt(s) ==
    CASE s = "8000" -> [ok |-> TRUE, value |-> 8000]
      [] s = "9090" -> [ok |-> TRUE, value |-> 9090]
      [] OTHER -> [ok |-> FALSE]

NoConfig == [loaded |-> FALSE]

\* AppConfig(): every field from the environment when set, else its default.
\* A value that does not convert to the declared type raises ValidationError.
AppConfig(e) ==
    LET port == IF e.PORT = Unset THEN [ok |-> TRUE, value |-> DefaultPort]
                ELSE ParseInt(e.PORT)
    IN  IF ~port.ok
        THEN [loaded |-> FALSE, error |-> "ValidationError"]
        ELSE [loaded |-> TRUE,
              HOST |-> DefaultHost,
              PORT |-> port.value,
              AGENT_NAME |-> DefaultAgentName,
              OPENAI_API_KEY |-> DefaultApiKey,
              OPENAI_MODEL |-> DefaultModel,
              OPENAI_TEMPERATURE |-> DefaultTemperature,
              LOG_LEVEL |-> IF e.LOG_LEVEL = Unset THEN DefaultLogLevel
                            ELSE e.LOG_LEVEL]

get_config(cfg) == cfg

\* Level names the logging module knows (logging._nameToLevel).
LoggingLevelNames ==
    {"CRITICAL", "FATAL", "ERROR", "WARN", "WARNING", "INFO", "DEBUG", "NOTSET"}

----------------------------------------------------------------------------
\* Agent and workflow graph (app/core/agents/simple_agent.py)

START == "__start__"

END == "__end__"

SystemPrompt == "You are a helpful AI assistant."

Fallback == "No response generated"

\* StateGraph(AgentState): an empty graph.
StateGraph == [nodes |-> {}, entry |-> START, branches |-> <<>>, compiled |-> FALSE]

add_node(g, name) == [g EXCEPT !.nodes = @ \cup {name}]

set_entry_point(g, name) == [g EXCEPT !.entry = name]

add_conditional_edges(g, src, path, mapping) ==
    [g EXCEPT !.branches = Append(@, [src |-> src, path |-> path, ends |-> mapping])]

compile(g) == [g EXCEPT !.compiled = TRUE]

\* As Compile, with the conditional edge leading back into the node.
CompileLooping(workflow) ==
    compile(add_conditional_edges(set_entry_point(add_node(workflow, "llm"), "llm"),
                                  "llm", "should_end", [end |-> "llm"]))

\* SimpleAgent._compile, on self.workflow
Compile(workflow) ==
    compile(add_conditional_edges(set_entry_point(add_node(workflow, "llm"), "llm"),
                                  "llm", "should_end", [end |-> END]))

NoAgent == [built |-> FALSE]

\* SimpleAgent.__init__
SimpleAgent(cfg) ==
    [built |-> TRUE,
     llm |-> [model |-> cfg.OPENAI_MODEL,
              temperature |-> cfg.OPENAI_TEMPERATURE,
              api_key |-> cfg.OPENAI_API_KEY],
     compiled_workflow |-> Compile(StateGraph)]

\* SimpleAgent.should_end
should_end(state) == "end"

\* The initial_state literal of SimpleAgent.invoke
initial_state(user_query) ==
    [messages |-> <<>>, user_query |-> user_query, final_response |-> None]

NoState == [absent |-> TRUE]

SystemMessage(c) == [role |-> "system", content |-> c]

HumanMessage(c) == [role |-> "human", content |-> c]

AIMessage(c) == [role |-> "ai", content |-> c]

\* The messages list of SimpleAgent.call_llm
BuildMessages(state) ==
    <<SystemMessage(SystemPrompt), HumanMessage(state.user_query)>>

\* dict.get(key, default)
DictGet(d, key, default) == IF key \in DOMAIN d THEN d[key] ELSE default

\* The node the workflow runs after `src` returned with `state`.
NextNode(g, src, state) ==
    LET b == CHOOSE x \in {g.branches[k] : k \in 1..Len(g.branches)} : x.src = src
    IN  b.ends[should_end(state)]

----------------------------------------------------------------------------
\* Tool functions (app/routers/tool_router.py)

\* As GreetingText, with another punctuation.
GreetingTextComma(name) == "Hello " \o name \o ", how can I help you today?"

\* The f-string of get_greeting.
GreetingText(name) == "Hello, " \o name \o "! How can I help you today?"

\* Binding of get_greeting's parameter: name: str = "User".
GreetingName(args) == IF "name" \in DOMAIN args THEN args.name ELSE "User"

Min(a, b) == IF a < b THEN a ELSE b

\* response[:100]
Slice100(s) == SubSeq(s, 1, Min(100, Len(s)))

ReceivedLine(query) == "Received query: " \o query

GeneratedLine(response) == "Generated response: " \o Slice100(response) \o "..."

\* The tools register_tools decorates, in order.
RegisteredTools == <<"ask_question", "get_greeting">>

\* As StateRef, with one conversation state kept on the shared agent.
StateRefShared(i) == 1

\* The conversation state an invocation works on: its own local initial_state.
StateRef(i) == i

----------------------------------------------------------------------------
VARIABLES
    env,        \* the process environment
    phase,      \* position of process start-up
    config,     \* app.core.config.config
    agent,      \* app.core.agents.simple_agent.agent
    logLevel,   \* level given to logging.basicConfig
    mcp,        \* app.server.mcp: the dispatch runtime and its tool table
    served,     \* the arguments main gave to mcp.run
    req,        \* per request: the tool called and its arguments
    pc,         \* per request: position of its handler
    node,       \* per request: position of the workflow run
    st,         \* conversation states
    invoked,    \* per request: the arguments of the calls of agent.invoke
    sent,       \* per request: the message lists given to llm.ainvoke
    recv,       \* per request: the responses llm.ainvoke returned
    raised,     \* per request: the errors llm.ainvoke raised
    invRet,     \* per request: the value agent.invoke returned
    ret,        \* per request: how the tool call ended
    log         \* per request: the lines its handler logged

vars == <<env, phase, config, agent, logLevel, mcp, served,
          req, pc, node, st, invoked, sent, recv, raised, invRet, ret, log>>

startup == <<env, phase, config, agent, logLevel, mcp, served>>

NoApp == [created |-> FALSE]

NoReq == [tool |-> "none"]

Pending == [kind |-> "pending"]

Init ==
    /\ env \in [PORT : EnvPort, LOG_LEVEL : EnvLogLevel]
    /\ phase = "start"
    /\ config = NoConfig
    /\ agent = NoAgent
    /\ logLevel = Unset
    /\ mcp = NoApp
    /\ served = NoApp
    /\ req = [i \in Calls |-> NoReq]
    /\ pc = [i \in Calls |-> "idle"]
    /\ node = [i \in Calls |-> START]
    /\ st = [i \in Calls |-> NoState]
    /\ invoked = [i \in Calls |-> <<>>]
    /\ sent = [i \in Calls |-> <<>>]
    /\ recv = [i \in Calls |-> <<>>]
    /\ raised = [i \in Calls |-> <<>>]
    /\ invRet = [i \in Calls |-> Pending]
    /\ ret = [i \in Calls |-> Pending]
    /\ log = [i \in Calls |-> <<>>]

requests == <<req, pc, node, st, invoked, sent, recv, raised, invRet, ret, log>>

----------------------------------------------------------------------------
\* Process start-up, in import order from entrypoint.py

\* config = AppConfig()
LoadConfig ==
    /\ phase = "start"
    /\ config' = AppConfig(env)
    /\ phase' = IF config'.loaded THEN "config_loaded" ELSE "crashed"
    /\ UNCHANGED <<env, agent, logLevel, mcp, served, requests>>

\* agent = SimpleAgent()
ConstructAgent ==
    /\ phase = "config_loaded"
    /\ agent' = SimpleAgent(config)
    /\ phase' = "agent_constructed"
    /\ UNCHANGED <<env, config, logLevel, mcp, served, requests>>

\* As ConfigureLogging, with an unknown level name ignored instead of raised.
ConfigureLoggingLenient ==
    /\ phase = "agent_constructed"
    /\ logLevel' = IF config.LOG_LEVEL \in LoggingLevelNames
                   THEN config.LOG_LEVEL ELSE logLevel
    /\ phase' = "logging_configured"
    /\ UNCHANGED <<env, config, agent, mcp, served, requests>>

\* logging.basicConfig(level=config.LOG_LEVEL)
ConfigureLogging ==
    /\ phase = "agent_constructed"
    /\ IF config.LOG_LEVEL \in LoggingLevelNames
       THEN logLevel' = config.LOG_LEVEL /\ phase' = "logging_configured"
       ELSE logLevel' = logLevel /\ phase' = "crashed"
    /\ UNCHANGED <<env, config, agent, mcp, served, requests>>

\* As register_tools, with the second tool left undecorated.
register_tools_first_only(app) == [app EXCEPT !.tools = Append(@, RegisteredTools[1])]

\* register_tools(mcp): each decorated function is added to the tool table.
register_tools(app) == [app EXCEPT !.tools = @ \o RegisteredTools]

\* mcp = create_app()
create_app ==
    /\ phase = "logging_configured"
    /\ mcp' = register_tools([created |-> TRUE, name |-> config.AGENT_NAME, tools |-> <<>>])
    /\ phase' = "app_created"
    /\ UNCHANGED <<env, config, agent, logLevel, served, requests>>

\* As main, overriding the configured port before serving.
main_overriding_port ==
    /\ phase = "app_created"
    /\ config' = [config EXCEPT !.PORT = DefaultPort + 1]
    /\ served' = [created |-> TRUE, host |-> config'.HOST, port |-> config'.PORT,
                  transport |-> "stdio"]
    /\ phase' = "serving"
    /\ UNCHANGED <<env, agent, logLevel, mcp, requests>>

\* main(): mcp.run(host, port, transport="stdio")
main ==
    /\ phase = "app_created"
    /\ LET c == get_config(config)
       IN  served' = [created |-> TRUE, host |-> c.HOST, port |-> c.PORT,
                      transport |-> "stdio"]
    /\ phase' = "serving"
    /\ UNCHANGED <<env, config, agent, logLevel, mcp, requests>>

----------------------------------------------------------------------------
\* Request handling, after mcp.run

ToolTable == IF mcp.created THEN {mcp.tools[k] : k \in 1..Len(mcp.tools)} ELSE {}

ArgsOf(tool) == IF tool = "ask_question" THEN AskArgs ELSE GreetingArgs

\* The dispatch runtime receives a request for a registered tool.
Dispatch(i, tool, args) ==
    /\ phase = "serving"
    /\ pc[i] = "idle"
    /\ \A j \in Calls : j < i => pc[j] # "idle"
    /\ tool \in ToolTable
    /\ req' = [req EXCEPT ![i] = [tool |-> tool, args |-> args]]
    /\ pc' = [pc EXCEPT ![i] = "called"]
    /\ UNCHANGED <<startup, node, st, invoked, sent, recv, raised, invRet, ret, log>>

\* As get_greeting, producing the greeting through the agent.
get_greeting_via_agent(i) ==
    /\ pc[i] = "called"
    /\ req[i].tool = "get_greeting"
    /\ invoked' = [invoked EXCEPT ![i] = Append(@, GreetingName(req[i].args))]
    /\ ret' = [ret EXCEPT ![i] =
                  [kind |-> "ok", value |-> Str(GreetingText(GreetingName(req[i].args)))]]
    /\ pc' = [pc EXCEPT ![i] = "done"]
    /\ UNCHANGED <<startup, req, node, st, sent, recv, raised, invRet, log>>

\* get_greeting: the whole body.
get_greeting(i) ==
    /\ pc[i] = "called"
    /\ req[i].tool = "get_greeting"
    /\ ret' = [ret EXCEPT ![i] =
                  [kind |-> "ok", value |-> Str(GreetingText(GreetingName(req[i].args)))]]
    /\ pc' = [pc EXCEPT ![i] = "done"]
    /\ UNCHANGED <<startup, req, node, st, invoked, sent, recv, raised, invRet, log>>

\* As ask_question, with an empty query refused before the agent is called.
ask_question_validating(i) ==
    /\ pc[i] = "called"
    /\ req[i].tool = "ask_question"
    /\ LET query == req[i].args.query
       IN  IF query = ""
           THEN /\ log' = [log EXCEPT ![i] = Append(@, ReceivedLine(query))]
                /\ ret' = [ret EXCEPT ![i] = [kind |-> "error", error |-> "ValueError"]]
                /\ pc' = [pc EXCEPT ![i] = "failed"]
                /\ UNCHANGED <<invoked, st, node>>
           ELSE /\ log' = [log EXCEPT ![i] = Append(@, ReceivedLine(query))]
                /\ invoked' = [invoked EXCEPT ![i] = Append(@, query)]
                /\ st' = [st EXCEPT ![StateRef(i)] = initial_state(query)]
                /\ node' = [node EXCEPT ![i] = START]
                /\ pc' = [pc EXCEPT ![i] = "invoke"]
                /\ ret' = ret
    /\ UNCHANGED <<startup, req, sent, recv, raised, invRet>>

\* ask_question up to the await of agent.invoke, and invoke up to the await of
\* the workflow: the query is logged and the initial state is built.
ask_question(i) ==
    /\ pc[i] = "called"
    /\ req[i].tool = "ask_question"
    /\ LET query == req[i].args.query
       IN  /\ log' = [log EXCEPT ![i] = Append(@, ReceivedLine(query))]
           /\ invoked' = [invoked EXCEPT ![i] = Append(@, query)]
           /\ st' = [st EXCEPT ![StateRef(i)] = initial_state(query)]
    /\ node' = [node EXCEPT ![i] = START]
    /\ pc' = [pc EXCEPT ![i] = "invoke"]
    /\ UNCHANGED <<startup, req, sent, recv, raised, invRet, ret>>

\* As call_llm, with the answer to an earlier identical query reused.
call_llm_cached(i) ==
    /\ pc[i] = "invoke"
    /\ Len(sent[i]) < RecursionLimit
    /\ node' = [node EXCEPT ![i] =
                   IF @ = START THEN agent.compiled_workflow.entry ELSE @]
    /\ LET state == st[StateRef(i)]
           hits == {j \in Calls : /\ j # i
                                  /\ recv[j] # <<>>
                                  /\ invoked[j] = <<state.user_query>>}
       IN  IF hits = {}
           THEN /\ sent' = [sent EXCEPT ![i] = Append(@, BuildMessages(state))]
                /\ pc' = [pc EXCEPT ![i] = "awaiting"]
                /\ st' = st
           ELSE LET response == recv[CHOOSE j \in hits : TRUE][1]
                IN  /\ sent' = sent
                    /\ pc' = [pc EXCEPT ![i] = "node_returned"]
                    /\ st' = [st EXCEPT ![StateRef(i)] =
                                 [@ EXCEPT !.messages = Append(BuildMessages(state), response),
                                           !.final_response = Str(response.content)]]
    /\ UNCHANGED <<startup, req, invoked, recv, raised, invRet, ret, log>>

\* The workflow runs its next node, call_llm, up to the await of llm.ainvoke.
call_llm(i) ==
    /\ pc[i] = "invoke"
    /\ Len(sent[i]) < RecursionLimit
    /\ node' = [node EXCEPT ![i] =
                   IF @ = START THEN agent.compiled_workflow.entry ELSE @]
    /\ sent' = [sent EXCEPT ![i] = Append(@, BuildMessages(st[StateRef(i)]))]
    /\ pc' = [pc EXCEPT ![i] = "awaiting"]
    /\ UNCHANGED <<startup, req, st, invoked, recv, raised, invRet, ret, log>>

\* As LlmReturn, with an empty content stored as no response:
\* state["final_response"] = response.content or None
LlmReturnDropsEmpty(i, content) ==
    /\ pc[i] = "awaiting"
    /\ LET response == AIMessage(content)
           messages == sent[i][Len(sent[i])]
       IN  /\ recv' = [recv EXCEPT ![i] = Append(@, response)]
           /\ st' = [st EXCEPT ![StateRef(i)] =
                        [@ EXCEPT !.messages = Append(messages, response),
                                  !.final_response =
                                      IF content = "" THEN None ELSE Str(content)]]
    /\ pc' = [pc EXCEPT ![i] = "node_returned"]
    /\ UNCHANGED <<startup, req, node, invoked, sent, raised, invRet, ret, log>>

\* As LlmReturn, with the response added to the state's own history:
\* state["messages"] = state["messages"] + [response]
LlmReturnAppendOnly(i, content) ==
    /\ pc[i] = "awaiting"
    /\ LET response == AIMessage(content)
       IN  /\ recv' = [recv EXCEPT ![i] = Append(@, response)]
           /\ st' = [st EXCEPT ![StateRef(i)] =
                        [@ EXCEPT !.messages = Append(@, response),
                                  !.final_response = Str(response.content)]]
    /\ pc' = [pc EXCEPT ![i] = "node_returned"]
    /\ UNCHANGED <<startup, req, node, invoked, sent, raised, invRet, ret, log>>

\* llm.ainvoke returns a response; call_llm stores it and returns the state.
LlmReturn(i, content) ==
    /\ pc[i] = "awaiting"
    /\ LET response == AIMessage(content)
           messages == sent[i][Len(sent[i])]
       IN  /\ recv' = [recv EXCEPT ![i] = Append(@, response)]
           /\ st' = [st EXCEPT ![StateRef(i)] =
                        [@ EXCEPT !.messages = Append(messages, response),
                                  !.final_response = Str(response.content)]]
    /\ pc' = [pc EXCEPT ![i] = "node_returned"]
    /\ UNCHANGED <<startup, req, node, invoked, sent, raised, invRet, ret, log>>

\* As LlmRaise, with the error caught on the way and the fallback text returned.
LlmRaiseCaught(i, e) ==
    /\ pc[i] = "awaiting"
    /\ raised' = [raised EXCEPT ![i] = Append(@, e)]
    /\ log' = [log EXCEPT ![i] = Append(@, GeneratedLine(Fallback))]
    /\ ret' = [ret EXCEPT ![i] = [kind |-> "ok", value |-> Str(Fallback)]]
    /\ pc' = [pc EXCEPT ![i] = "done"]
    /\ UNCHANGED <<startup, req, node, st, invoked, sent, recv, invRet>>

\* As LlmRaise, with the error taking the server down.
LlmRaiseFatal(i, e) ==
    /\ pc[i] = "awaiting"
    /\ raised' = [raised EXCEPT ![i] = Append(@, e)]
    /\ ret' = [ret EXCEPT ![i] = [kind |-> "error", error |-> e]]
    /\ pc' = [pc EXCEPT ![i] = "failed"]
    /\ phase' = "crashed"
    /\ UNCHANGED <<env, config, agent, logLevel, mcp, served,
                   req, node, st, invoked, sent, recv, invRet, log>>

\* llm.ainvoke raises: no frame between the call and the dispatch runtime has a
\* handler, so the error ends call_llm, the workflow, invoke and ask_question.
LlmRaise(i, e) ==
    /\ pc[i] = "awaiting"
    /\ raised' = [raised EXCEPT ![i] = Append(@, e)]
    /\ ret' = [ret EXCEPT ![i] = [kind |-> "error", error |-> e]]
    /\ pc' = [pc EXCEPT ![i] = "failed"]
    /\ UNCHANGED <<startup, req, node, st, invoked, sent, recv, invRet, log>>

\* The conditional edge after the node: should_end picks the next node.
Route(i) ==
    /\ pc[i] = "node_returned"
    /\ LET next == NextNode(agent.compiled_workflow, node[i], st[StateRef(i)])
       IN  /\ node' = [node EXCEPT ![i] = next]
           /\ pc' = [pc EXCEPT ![i] = IF next = END THEN "workflow_done" ELSE "invoke"]
    /\ UNCHANGED <<startup, req, st, invoked, sent, recv, raised, invRet, ret, log>>

\* As InvokeResult, with the fallback substituted for any falsy value:
\* result.get("final_response") or "No response generated"
InvokeResultOr(result) ==
    LET v == DictGet(result, "final_response", None)
    IN  IF v = None \/ v = Str("") THEN Str(Fallback) ELSE v

\* invoke's return value: result.get("final_response", "No response generated")
InvokeResult(result) == DictGet(result, "final_response", Str(Fallback))

\* The workflow has ended; invoke returns.
InvokeReturn(i) ==
    /\ pc[i] = "workflow_done"
    /\ invRet' = [invRet EXCEPT ![i] = InvokeResult(st[StateRef(i)])]
    /\ pc' = [pc EXCEPT ![i] = "invoke_returned"]
    /\ UNCHANGED <<startup, req, node, st, invoked, sent, recv, raised, ret, log>>

\* As AskQuestionResult, returning what was logged: the first 100 characters.
AskQuestionResultTruncated(response) == Str(Slice100(response.s))

\* What ask_question hands back for the value invoke returned.
AskQuestionResult(response) == response

\* ask_question after the await: logs the first 100 characters and returns.
\* Slicing a value that is no str raises TypeError.
AskQuestionReturn(i) ==
    /\ pc[i] = "invoke_returned"
    /\ LET response == invRet[i]
       IN  IF response.py = "str"
           THEN /\ log' = [log EXCEPT ![i] = Append(@, GeneratedLine(response.s))]
                /\ ret' = [ret EXCEPT ![i] =
                              [kind |-> "ok", value |-> AskQuestionResult(response)]]
                /\ pc' = [pc EXCEPT ![i] = "done"]
           ELSE /\ log' = log
                /\ ret' = [ret EXCEPT ![i] = [kind |-> "error", error |-> "TypeError"]]
                /\ pc' = [pc EXCEPT ![i] = "failed"]
    /\ UNCHANGED <<startup, req, node, st, invoked, sent, recv, raised, invRet>>

----------------------------------------------------------------------------
Next ==
    \/ LoadConfig
    \/ ConstructAgent
    \/ ConfigureLogging
    \/ create_app
    \/ main
    \/ \E i \in Calls, tool \in {"ask_question", "get_greeting"} :
          \E args \in ArgsOf(tool) : Dispatch(i, tool, args)
    \/ \E i \in Calls : get_greeting(i)
    \/ \E i \in Calls : ask_question(i)
    \/ \E i \in Calls : call_llm(i)
    \/ \E i \in Calls, content \in Contents : LlmReturn(i, content)
    \/ \E i \in Calls, e \in Errors : LlmRaise(i, e)
    \/ \E i \in Calls : Route(i)
    \/ \E i \in Calls : InvokeReturn(i)
    \/ \E i \in Calls : AskQuestionReturn(i)

Spec == Init /\ [][Next]_vars

\* The event loop runs every handler that is ready, and the workflow runtime
\* every step of a run whose model call has returned.
Progress(i) ==
    ask_question(i) \/ call_llm(i) \/ Route(i) \/ InvokeReturn(i) \/ AskQuestionReturn(i)

\* The process started with nothing set in its environment.
InitDefaults == Init /\ env = [PORT |-> Unset, LOG_LEVEL |-> Unset]

FairSpec == InitDefaults /\ [][Next]_vars /\ \A i \in Calls : WF_vars(Progress(i))

----------------------------------------------------------------------------
\* Properties

IsAsk(i) == pc[i] # "idle" /\ req[i].tool = "ask_question"

IsGreeting(i) == pc[i] # "idle" /\ req[i].tool = "get_greeting"

\* invoke has been called for request i
InInvoke(i) ==
    pc[i] \in {"invoke", "awaiting", "node_returned", "workflow_done",
               "invoke_returned", "done", "failed"}

\* the model call of request i has been issued
PastSend(i) ==
    pc[i] \in {"awaiting", "node_returned", "workflow_done",
               "invoke_returned", "done", "failed"}

\* C1: one call of ask_question(query) invokes the agent's invoke exactly once,
\* with exactly that query, and the value ask_question returns is exactly the
\* value invoke returned, not cut to 100 characters nor otherwise altered.
C1_AskQuestionPassThrough ==
    \A i \in Calls :
        IsAsk(i) =>
            /\ Len(invoked[i]) <= 1
            /\ InInvoke(i) => invoked[i] = <<req[i].args.query>>
            /\ pc[i] = "done" =>
                  /\ ret[i].kind = "ok"
                  /\ invRet[i] # Pending
                  /\ ret[i].value = invRet[i]
                  /\ Len(invoked[i]) = 1

\* An ask_question call has returned a text of more than 100 characters.
C1_Witness ==
    \E i \in Calls :
        /\ IsAsk(i) /\ pc[i] = "done"
        /\ req[i].args.query = "what is the answer?"
        /\ ret[i].value = Str(LongText)
        /\ Len(ret[i].value.s) > 100

\* C2: every invoke issues exactly one model call: none before the node runs,
\* one from then on, no second one and no reuse of an earlier result, so the
\* model calls made equal the invokes that reached the node, identical queries
\* included.
C2_OneModelCallPerInvoke ==
    \A i \in Calls :
        /\ Len(sent[i]) <= Len(invoked[i])
        /\ Len(sent[i]) <= 1
        /\ (IsAsk(i) /\ pc[i] \in {"node_returned", "workflow_done", "invoke_returned",
                                    "done", "failed"})
              => /\ Len(sent[i]) = 1
                 /\ Len(recv[i]) + Len(raised[i]) = 1
        /\ (IsAsk(i) /\ pc[i] = "awaiting")
              => Len(sent[i]) = 1 /\ Len(recv[i]) + Len(raised[i]) = 0

\* Two finished ask_question calls with the same query made one model call each.
C2_Witness ==
    \E i, j \in Calls :
        /\ i # j
        /\ IsAsk(i) /\ IsAsk(j)
        /\ pc[i] = "done" /\ pc[j] = "done"
        /\ req[i].args.query = req[j].args.query
        /\ Len(sent[i]) = 1 /\ Len(sent[j]) = 1

\* C3: an error raised by the model call is caught nowhere: the same error
\* reaches the caller of ask_question, no string is returned, the 'Generated
\* response' line is not logged; every finished call ended either with a string
\* or with the error.
C3_ErrorPropagates ==
    \A i \in Calls :
        /\ raised[i] # <<>> =>
              /\ pc[i] = "failed"
              /\ ret[i] = [kind |-> "error", error |-> raised[i][1]]
              /\ invRet[i] = Pending
              /\ log[i] = <<ReceivedLine(req[i].args.query)>>
        /\ pc[i] = "failed" => ret[i].kind = "error"
        /\ pc[i] = "done" => ret[i].kind = "ok" /\ ret[i].value.py = "str"
        /\ pc[i] \notin {"done", "failed"} => ret[i] = Pending
        /\ (IsAsk(i) /\ pc[i] = "done") =>
              /\ raised[i] = <<>>
              /\ log[i] = <<ReceivedLine(req[i].args.query),
                            GeneratedLine(ret[i].value.s)>>

\* An ask_question call whose model call raised has ended with that error.
C3_Witness ==
    \E i \in Calls :
        /\ IsAsk(i)
        /\ raised[i] = <<"ConnectionError">>
        /\ ret[i] = [kind |-> "error", error |-> "ConnectionError"]

\* C4: get_greeting(name) returns "Hello, " + name + "! How can I help you
\* today?", and get_greeting() returns what get_greeting("User") returns.
C4_GreetingText ==
    \A i \in Calls :
        (IsGreeting(i) /\ pc[i] = "done") =>
            /\ ret[i].kind = "ok"
            /\ "name" \in DOMAIN req[i].args =>
                  ret[i].value = Str("Hello, " \o req[i].args.name
                                              \o "! How can I help you today?")
            /\ ("name" \in DOMAIN req[i].args /\ req[i].args.name = "Ada") =>
                  ret[i].value = Str("Hello, Ada! How can I help you today?")
            /\ "name" \notin DOMAIN req[i].args =>
                  /\ ret[i].value = Str("Hello, User! How can I help you today?")
                  /\ \A j \in Calls :
                        (/\ IsGreeting(j) /\ pc[j] = "done"
                         /\ "name" \in DOMAIN req[j].args
                         /\ req[j].args.name = "User") => ret[j] = ret[i]

\* get_greeting() and get_greeting("User") have both returned.
C4_Witness ==
    \E i, j \in Calls :
        /\ IsGreeting(i) /\ pc[i] = "done" /\ DOMAIN req[i].args = {}
        /\ IsGreeting(j) /\ pc[j] = "done" /\ DOMAIN req[j].args = {"name"}
        /\ req[j].args.name = "User"

ConversationStates ==
    {initial_state(q) : q \in Queries} \cup
    {[messages |-> Append(BuildMessages(initial_state(q)), AIMessage(c)),
      user_query |-> q,
      final_response |-> Str(c)] : q \in Queries, c \in Contents}

C6_Graph ==
    agent.built =>
        LET g == agent.compiled_workflow
        IN  /\ g.compiled
            /\ g.nodes = {"llm"}
            /\ g.entry = "llm"
            /\ Len(g.branches) = 1
            /\ \A s \in ConversationStates :
                  should_end(s) = "end" /\ NextNode(g, "llm", s) = END

C6_Runs ==
    \A i \in Calls :
        /\ node[i] \in {START, "llm", END}
        /\ Len(sent[i]) <= 1
        /\ node[i] = START => sent[i] = <<>>
        /\ node[i] = "llm" => pc[i] \in {"awaiting", "node_returned", "failed"}
        /\ node[i] = END =>
              /\ Len(sent[i]) = 1
              /\ pc[i] \in {"workflow_done", "invoke_returned", "done"}

\* C6: the workflow has the two end points start and done and the one node
\* call-model; in every invocation the node runs once from start, should_end
\* selects the end transition for every conversation state, a run that is done
\* stays done and never re-enters the node, and every invocation whose model
\* call returned eventually reaches done.
C6_OneNodeWorkflow ==
    /\ [](C6_Graph /\ C6_Runs)
    /\ [][\A i \in Calls : node[i] = END => node'[i] = END]_vars
    /\ \A i \in Calls : (pc[i] = "node_returned") ~> (node[i] = END)

\* A workflow run is done after one execution of the node.
C6_Witness ==
    \E i \in Calls :
        /\ IsAsk(i)
        /\ node[i] = END
        /\ Len(sent[i]) = 1
        /\ Len(recv[i]) = 1

\* C7: with several ask_question calls in flight on the shared agent, resumed
\* in any order, each call works on its own conversation state and returns the
\* response to its own query: user_query, message_history and final_response
\* of a call are never those of another call.
C7_CallsIsolated ==
    \A i \in Calls :
        (IsAsk(i) /\ InInvoke(i)) =>
            LET s == st[StateRef(i)]
                query == req[i].args.query
            IN  /\ s.user_query = query
                /\ recv[i] = <<>> => s = initial_state(query)
                /\ PastSend(i) =>
                      sent[i] = << <<SystemMessage(SystemPrompt), HumanMessage(query)>> >>
                /\ recv[i] # <<>> =>
                      /\ s.final_response = Str(recv[i][1].content)
                      /\ s.messages = sent[i][1] \o recv[i]
                /\ pc[i] = "done" => ret[i].value = Str(recv[i][1].content)

\* Two ask_question calls with different queries overlapped, and the later one
\* has returned its own answer while the earlier one still waits for its model
\* call.
C7_Witness ==
    /\ MaxCalls >= 2
    /\ IsAsk(1) /\ IsAsk(2)
    /\ req[1].args.query # req[2].args.query
    /\ pc[1] = "awaiting"
    /\ pc[2] = "done"
    /\ ret[2].value = Str("42")

\* C8: start-up goes load configuration, construct the agent with its compiled
\* one-node graph, construct the runtime and register the tools, serve; when
\* serving, the tool table holds ask_question and get_greeting, each once, and
\* no request is dispatched before that.
C8_StartupOrder ==
    /\ phase = "start" => ~config.loaded /\ ~agent.built /\ ~mcp.created
    /\ phase = "config_loaded" => config.loaded /\ ~agent.built /\ ~mcp.created
    /\ phase \in {"agent_constructed", "logging_configured"} =>
          config.loaded /\ agent.built /\ ~mcp.created
    /\ phase = "app_created" => mcp.created /\ ~served.created
    /\ agent.built =>
          /\ config.loaded
          /\ agent.compiled_workflow.compiled
          /\ agent.compiled_workflow.nodes = {"llm"}
    /\ mcp.created =>
          /\ agent.built
          /\ Len(mcp.tools) = 2
          /\ ToolTable = {"ask_question", "get_greeting"}
    /\ served.created <=> phase = "serving"
    /\ phase = "serving" =>
          /\ mcp.created
          /\ Len(mcp.tools) = 2
          /\ ToolTable = {"ask_question", "get_greeting"}
    /\ \A i \in Calls :
          pc[i] # "idle" =>
              /\ phase = "serving"
              /\ req[i].tool \in ToolTable
              /\ ToolTable = {"ask_question", "get_greeting"}

\* The runtime serves and has handled a request of each tool.
C8_Witness ==
    /\ phase = "serving"
    /\ \E i, j \in Calls :
          /\ IsAsk(i) /\ pc[i] = "done"
          /\ IsGreeting(j) /\ pc[j] = "done"

\* C9: the configuration record is created once, at process start, and is the
\* same in every state afterwards: no operation writes it, and main serves on
\* what get_config returns, which is that record.
C9_ConfigReadOnly ==
    /\ [][config' # config => (phase = "start" /\ config = NoConfig)]_vars
    /\ [][config.loaded => config' = config]_vars
    /\ [](served.created =>
             /\ config.loaded
             /\ served.host = config.HOST
             /\ served.port = config.PORT)

\* The record loaded from the environment is in place after requests of both
\* tools were handled.
C9_Witness ==
    /\ env.PORT = "9090"
    /\ config.loaded
    /\ config.PORT = 9090
    /\ served.created
    /\ \E i, j \in Calls :
          /\ IsAsk(i) /\ pc[i] = "done"
          /\ IsGreeting(j) /\ pc[j] = "done"

\* A step in which the get_greeting handler of request i runs.
GreetingStep(i) ==
    /\ pc[i] = "called"
    /\ req[i].tool = "get_greeting"
    /\ pc'[i] # pc[i]

\* C10: get_greeting cannot fail and has no side effects: it returns a string,
\* never an error, never invokes the agent nor issues a model call, and changes
\* no conversation state, configuration or agent state.
C10_GreetingPure ==
    /\ [][\A i \in Calls :
             GreetingStep(i) =>
                 /\ pc'[i] = "done"
                 /\ ret'[i].kind = "ok"
                 /\ ret'[i].value.py = "str"
                 /\ UNCHANGED <<startup, req, node, st, invoked, sent, recv, raised,
                                invRet, log>>
                 /\ \A j \in Calls : j # i => pc'[j] = pc[j] /\ ret'[j] = ret[j]]_vars
    /\ [](\A i \in Calls :
             IsGreeting(i) =>
                 /\ pc[i] \in {"called", "done"}
                 /\ invoked[i] = <<>>
                 /\ sent[i] = <<>>
                 /\ st[StateRef(i)] = NoState
                 /\ pc[i] = "done" => ret[i].kind = "ok")

\* get_greeting has returned while an ask_question call is in flight.
C10_Witness ==
    \E i, j \in Calls :
        /\ IsGreeting(i) /\ pc[i] = "done" /\ ret[i].kind = "ok"
        /\ IsAsk(j) /\ pc[j] = "awaiting"

\* A step in which the ask_question call of request i ends with an error.
FailingStep(i) == pc[i] = "awaiting" /\ pc'[i] = "failed"

SomeCallFailed == \E i \in Calls : pc[i] = "failed"

\* C11: a failed ask_question call is not fatal and leaves nothing behind: the
\* failing step changes nothing but the failed request's own outcome; after it
\* the server still serves with the configuration, agent and tool table it
\* started with, a further request of either tool can be dispatched, and every
\* other call ends as it does without the failure, on its own input alone.
C11_FailureLeavesNothing ==
    /\ [][\A i \in Calls :
             FailingStep(i) =>
                 /\ UNCHANGED <<startup, req, node, st, invoked, sent, recv, invRet, log>>
                 /\ \A j \in Calls :
                       j # i => /\ pc'[j] = pc[j]
                                /\ ret'[j] = ret[j]
                                /\ raised'[j] = raised[j]]_vars
    /\ [](SomeCallFailed =>
             /\ phase = "serving"
             /\ agent = SimpleAgent(config)
             /\ ToolTable = {"ask_question", "get_greeting"}
             /\ \A j \in Calls :
                   /\ (pc[j] = "idle" /\ \A k \in Calls : k < j => pc[k] # "idle") =>
                         /\ \A a \in AskArgs : ENABLED Dispatch(j, "ask_question", a)
                         /\ \A a \in GreetingArgs : ENABLED Dispatch(j, "get_greeting", a)
                   /\ pc[j] = "called" => ENABLED (ask_question(j) \/ get_greeting(j))
                   /\ (IsAsk(j) /\ pc[j] = "invoke") => ENABLED call_llm(j)
                   /\ (IsAsk(j) /\ pc[j] = "awaiting") =>
                         \A c \in Contents : ENABLED LlmReturn(j, c)
                   /\ (IsAsk(j) /\ pc[j] = "done") =>
                         ret[j] = [kind |-> "ok", value |-> Str(recv[j][1].content)]
                   /\ (IsGreeting(j) /\ pc[j] = "done") =>
                         ret[j] = [kind |-> "ok",
                                   value |-> Str(GreetingText(GreetingName(req[j].args)))])

\* One ask_question call has failed, and the ask_question call received after
\* it, with the same query, has returned the model's answer.
C11_Witness ==
    /\ MaxCalls >= 2
    /\ IsAsk(1) /\ pc[1] = "failed"
    /\ IsAsk(2) /\ pc[2] = "done"
    /\ req[1].args.query = req[2].args.query
    /\ ret[2] = [kind |-> "ok", value |-> Str("42")]

\* PORT is set to a text that does not convert to int.
PortMalformed == env.PORT # Unset /\ ~ParseInt(env.PORT).ok

NotServing == phase # "serving" /\ \A i \in Calls : pc[i] = "idle"

NeverServes == NotServing /\ ~mcp.created /\ ~served.created

\* C12 as claimed: with a PORT that is no integer, or a LOG_LEVEL outside
\* DEBUG/INFO/WARNING/ERROR/CRITICAL, the process never reaches the serving
\* state and no tool is dispatched.
C12_Original ==
    (\/ PortMalformed
     \/ /\ env.LOG_LEVEL # Unset
        /\ env.LOG_LEVEL \notin {"DEBUG", "INFO", "WARNING", "ERROR", "CRITICAL"})
        => NotServing

\* C12, amended: with a PORT that is no integer the process stops when the
\* configuration is loaded, and with a LOG_LEVEL that is none of the names the
\* logging module knows (DEBUG, INFO, WARNING, ERROR, CRITICAL and also WARN,
\* FATAL, NOTSET) it stops when logging is configured; in both cases it never
\* reaches the serving state and no tool is dispatched.
C12_ConfigErrorFatal ==
    /\ PortMalformed =>
          /\ phase \in {"start", "crashed"}
          /\ ~config.loaded
          /\ ~agent.built
          /\ NeverServes
    /\ (/\ env.LOG_LEVEL # Unset
        /\ env.LOG_LEVEL \notin {"DEBUG", "INFO", "WARNING", "ERROR", "CRITICAL",
                                  "WARN", "FATAL", "NOTSET"}) =>
          /\ phase \in {"start", "config_loaded", "agent_constructed", "crashed"}
          /\ logLevel = Unset
          /\ NeverServes

\* The process stopped on an unknown LOG_LEVEL, after the configuration was
\* loaded and the agent constructed.
C12_Witness ==
    /\ env.LOG_LEVEL = "verbose"
    /\ phase = "crashed"
    /\ config.loaded
    /\ agent.built
    /\ ~mcp.created

\* the call-model step of request i has completed
StepCompleted(i) ==
    pc[i] \in {"node_returned", "workflow_done", "invoke_returned", "done"}

\* the conversation state of request i exists and its step has not completed
StepPending(i) == pc[i] \in {"invoke", "awaiting", "failed"}

\* C13: in every invocation final_response is None from the creation of the
\* conversation state until the call-model step completes, and is a value,
\* not None, in every state after the step completed.
C13_FinalResponsePresence ==
    \A i \in Calls :
        IsAsk(i) =>
            /\ StepPending(i) => st[StateRef(i)].final_response = None
            /\ StepCompleted(i) =>
                  /\ st[StateRef(i)].final_response # None
                  /\ st[StateRef(i)].final_response.py = "str"

\* One invocation's step completed with an empty answer while another
\* invocation's state exists and waits for its model call.
C13_Witness ==
    \E i, j \in Calls :
        /\ IsAsk(i) /\ StepCompleted(i)
        /\ recv[i] = <<AIMessage("")>>
        /\ st[StateRef(i)].final_response = Str("")
        /\ IsAsk(j) /\ pc[j] = "awaiting"
        /\ st[StateRef(j)].final_response = None

\* C14: for every query, the empty string included, the message list of the
\* single model call has two entries, the system instruction "You are a
\* helpful AI assistant." and then the user message holding exactly the query;
\* no query is refused: an ask_question call fails only when the model call
\* raised.
C14_MessagesSent ==
    \A i \in Calls :
        IsAsk(i) =>
            /\ PastSend(i) =>
                  /\ Len(sent[i]) = 1
                  /\ Len(sent[i][1]) = 2
                  /\ sent[i][1][1] =
                        [role |-> "system", content |-> "You are a helpful AI assistant."]
                  /\ sent[i][1][2] = [role |-> "human", content |-> req[i].args.query]
            /\ pc[i] = "failed" => /\ Len(sent[i]) = 1
                                   /\ raised[i] # <<>>
                                   /\ ret[i].error \in Errors
            /\ InInvoke(i) => invoked[i] = <<req[i].args.query>>

\* The empty query was sent to the model as the user message.
C14_Witness ==
    \E i \in Calls :
        /\ IsAsk(i)
        /\ req[i].args.query = ""
        /\ pc[i] = "done"
        /\ sent[i] = << <<SystemMessage(SystemPrompt), HumanMessage("")>> >>

\* C15: when the call-model step has completed, message_history holds three
\* entries, system instruction, user query, model response, in this order,
\* final_response is the content of the third, and user_query is the value
\* invoke was called with; message_history is empty before the step completes.
C15_HistoryAfterStep ==
    \A i \in Calls :
        IsAsk(i) =>
            LET s == st[StateRef(i)]
            IN  /\ StepPending(i) =>
                      /\ s.messages = <<>>
                      /\ s.user_query = invoked[i][1]
                /\ StepCompleted(i) =>
                      /\ Len(s.messages) = 3
                      /\ s.messages[1] =
                            [role |-> "system", content |-> "You are a helpful AI assistant."]
                      /\ s.messages[2] = [role |-> "human", content |-> invoked[i][1]]
                      /\ s.messages[3] = recv[i][1]
                      /\ s.messages[3].role = "ai"
                      /\ s.final_response = Str(s.messages[3].content)
                      /\ s.user_query = invoked[i][1]

\* The step completed with a long answer as third entry of the history.
C15_Witness ==
    \E i \in Calls :
        /\ IsAsk(i) /\ pc[i] = "node_returned"
        /\ Len(st[StateRef(i)].messages) = 3
        /\ st[StateRef(i)].messages[3] = AIMessage(LongText)
        /\ st[StateRef(i)].user_query = "what is the answer?"

====
